---- MODULE Spec2Model ----
(***************************************************************************)
(* Model of s3_updator.py: a Streamlit dashboard that decodes uploaded CSV *)
(* files, transforms them, publishes them to S3 behind a timestamped       *)
(* backup, bulk-deletes objects and relays chat prompts to a Bedrock       *)
(* agent.                                                                  *)
(*                                                                         *)
(* Every user interaction re-runs the whole script synchronously, so each  *)
(* handler is one action.  The components touch disjoint state, so each is *)
(* explored by its own specification over the same variables:              *)
(*   SpecChat      the Bedrock agent chat tab                              *)
(*   SpecStore     the upload handlers, the delete tab and the bucket      *)
(*   SpecDecode    the two encoding-fallback loops                         *)
(*   SpecRolodex   the Rolodex hyperlink split on one table                *)
(*   SpecMetrics   the rollup of the agent's event log                     *)
(*   SpecDelete    the delete tab with the values its widgets returned     *)
(*   SpecPublish   publishes of several sessions, one S3 call per step     *)
(***************************************************************************)
EXTENDS Integers, Sequences, FiniteSets, TLC

VARIABLES
    session_state,          \* st.session_state: the keys set so far -> their values
    bedrock_agent_runtime,  \* the cached Bedrock client, or None
    invocations,            \* the invoke_agent requests the agent service received
    chat_runs,              \* script runs of this browser session
    store,                  \* the bucket: key -> bytes, for the keys that exist
    now,                    \* the wall clock, in seconds
    s3,                     \* the cached S3 client, or None
    s3calls,                \* the S3 requests issued by the last script run
    ui,                     \* the st.info/warning/success/error boxes of the last run
    runs,                   \* script runs of the store session
    upload,                 \* decoder input: the profile and what each codec does
    decoded,                \* decoder output
    df,                     \* the Rolodex table before the transform
    transformed,            \* the Rolodex handler's result
    events,                 \* aggregator input: the event log and the window end
    metrics,                \* aggregator output
    widgets,                \* delete tab: what its widgets returned in the last run
    publishing,             \* session -> where its publish stands and its locals
    overwritten             \* the bytes that put_object calls have replaced so far

chat_vars  == <<session_state, bedrock_agent_runtime, invocations, chat_runs>>
store_vars == <<store, now, s3, s3calls, ui, runs>>
dec_vars   == <<upload, decoded>>
rol_vars   == <<df, transformed>>
met_vars   == <<events, metrics>>
del_vars   == <<widgets>>
pub_vars   == <<publishing, overwritten>>
vars == <<session_state, bedrock_agent_runtime, invocations, chat_runs,
          store, now, s3, s3calls, ui, runs, upload, decoded, df, transformed,
          events, metrics, widgets, publishing, overwritten>>

None   == "<None>"

Range(f) == { f[i] : i \in DOMAIN f }

RECURSIVE SeqsUpTo(_, _)
\* All sequences over S of length at most n.
SeqsUpTo(S, n) ==
    IF n = 0 THEN { <<>> }
    ELSE LET shorter == SeqsUpTo(S, n - 1)
         IN  shorter \cup { Append(q, x) : q \in shorter, x \in S }

(***************************************************************************)
(* Python str operations used by extract_link / extract_friendly.  A str   *)
(* is a sequence of one-character strings; Python indices are 0-based.     *)
(***************************************************************************)
QUOTE == "\""
HYPERLINK == <<"=", "H", "Y", "P", "E", "R", "L", "I", "N", "K">>
hyperlink == <<"=", "h", "y", "p", "e", "r", "l", "i", "n", "k">>

\* c.upper() for the characters the model uses
UpperChar(c) ==
    CASE c = "h" -> "H" [] c = "y" -> "Y" [] c = "p" -> "P" [] c = "e" -> "E"
      [] c = "r" -> "R" [] c = "l" -> "L" [] c = "i" -> "I" [] c = "n" -> "N"
      [] c = "k" -> "K" [] c = "x" -> "X" [] OTHER -> c

\* t.upper()
Upper(t) == [i \in 1..Len(t) |-> UpperChar(t[i])]

\* t.startswith(p)
StartsWith(t, p) == Len(t) >= Len(p) /\ SubSeq(t, 1, Len(p)) = p

\* c in t
Contains(t, c) == \E i \in 1..Len(t) : t[i] = c

\* t.find(c, start): the lowest 0-based index >= start holding c, else -1
Find(t, c, start) ==
    LET hits == { i \in 0..(Len(t) - 1) : i >= start /\ t[i + 1] = c }
    IN  IF hits = {} THEN -1
        ELSE CHOOSE i \in hits : \A j \in hits : i <= j

\* t[s:e] for 0 <= s
Slice(t, s, e) == SubSeq(t, s + 1, e)

IsSpace(c) == c = " "

\* t.strip()
Strip(t) ==
    LET keep == { i \in 1..Len(t) : ~IsSpace(t[i]) }
    IN  IF keep = {} THEN <<>>
        ELSE LET lo == CHOOSE i \in keep : \A j \in keep : i <= j
                 hi == CHOOSE i \in keep : \A j \in keep : i >= j
             IN  SubSeq(t, lo, hi)

\* t.split(sep, 1)[1], for sep in t
SplitOnceTail(t, sep) == SubSeq(t, Find(t, sep, 0) + 2, Len(t))

(***************************************************************************)
(* Table cells: a str, or a non-str value (pandas reads an empty field as  *)
(* the float NaN).                                                         *)
(***************************************************************************)
StrCell(t) == [isstr |-> TRUE, v |-> t]
NaN == [isstr |-> FALSE, v |-> <<>>]

extract_link_unstripped(t) ==
    IF ~t.isstr THEN StrCell(<<>>)
    ELSE LET s == Find(t.v, QUOTE, 0) + 1
             e == Find(t.v, QUOTE, s)
         IN  IF s > 0 /\ e > 0 THEN StrCell(Slice(t.v, s, e)) ELSE StrCell(<<>>)

\* lines 241-246
extract_link(t) ==
    IF ~t.isstr THEN StrCell(<<>>)
    ELSE LET s == Find(t.v, QUOTE, 0) + 1
             e == Find(t.v, QUOTE, s)
         IN  IF s > 0 /\ e > 0 THEN StrCell(Strip(Slice(t.v, s, e))) ELSE StrCell(<<>>)

\* lines 247-254
extract_friendly(t) ==
    IF ~t.isstr \/ ~StartsWith(Upper(t.v), HYPERLINK) THEN t
    ELSE LET sep == IF Contains(t.v, ";") THEN ";" ELSE ","
         IN  IF ~Contains(t.v, sep) THEN t
             ELSE LET p == SplitOnceTail(t.v, sep)
                      s == Find(p, QUOTE, 0) + 1
                      e == Find(p, QUOTE, s)
                  IN  IF s > 0 /\ e > 0 THEN StrCell(Strip(Slice(p, s, e))) ELSE t

(***************************************************************************)
(* A DataFrame: column names, rows of cells, and the codec read_csv        *)
(* decoded the file with (the text of the cells depends on it).            *)
(***************************************************************************)
DataFrame(columns, rows, encoding) ==
    [columns |-> columns, rows |-> rows, encoding |-> encoding]

\* An exception: its class and its args; NoError when nothing was raised.
Raised(type, msg) == [type |-> type, args |-> <<msg>>]
NoError == [type |-> None, args |-> <<>>]
NoFrame == DataFrame(<<>>, <<>>, None)

InsertAt(q, loc, x) == SubSeq(q, 1, loc) \o <<x>> \o SubSeq(q, loc + 1, Len(q))

DOC_LINK == "Documentation Link"

\* lines 240-256: the Rolodex transform; [df, error], error = NoError when it returns
RolodexTransform(t) ==
    IF Len(t.columns) = 0
    THEN [df |-> NoFrame, error |-> Raised("IndexError", "index 0 is out of bounds")]
    ELSE IF DOC_LINK \in Range(t.columns)
    THEN [df |-> NoFrame, error |-> Raised("ValueError", "cannot insert, already exists")]
    ELSE [df |-> DataFrame(
                    InsertAt(t.columns, 1, DOC_LINK),
                    [r \in 1..Len(t.rows) |->
                        InsertAt([t.rows[r] EXCEPT ![1] = extract_friendly(t.rows[r][1])],
                                 1, extract_link(t.rows[r][1]))],
                    t.encoding),
          error |-> NoError]

\* line 216: df.rename(columns={...}); absent columns are skipped
RenameColumn(c) ==
    CASE c = "Account Name" -> "Partner"
      [] c = "Account Owner" -> "Partner Manager"
      [] OTHER -> c

ContactsTransform(t) ==
    DataFrame([i \in 1..Len(t.columns) |-> RenameColumn(t.columns[i])], t.rows, t.encoding)

(***************************************************************************)
(* The encoding-fallback loops.  What pd.read_csv does with a file under   *)
(* one codec is the environment's choice: it parses, or raises             *)
(* UnicodeDecodeError, pandas.errors.ParserError or another error          *)
(* (pandas.errors.EmptyDataError is neither of the two).                   *)
(***************************************************************************)
contacts_encodings == <<"utf-8", "latin-1", "iso-8859-1", "cp1252">>
rolodex_encodings  == <<"utf-16", "utf-8", "latin-1">>
contacts_except == {"UnicodeDecodeError"}
rolodex_except  == {"UnicodeDecodeError", "ParserError"}

ReadOutcomes == {"ok", "UnicodeDecodeError", "ParserError", "EmptyDataError"}

\* latin-1 maps every byte, so it never raises UnicodeDecodeError, and
\* iso-8859-1 is the same codec under another name.
ReadCsvBehaviours(encodings) ==
    { o \in [Range(encodings) -> ReadOutcomes] :
        /\ \A c \in Range(encodings) \cap {"latin-1", "iso-8859-1"} :
               o[c] # "UnicodeDecodeError"
        /\ {"latin-1", "iso-8859-1"} \subseteq Range(encodings)
               => o["iso-8859-1"] = o["latin-1"] }

ContactsBehaviours == ReadCsvBehaviours(contacts_encodings)
RolodexBehaviours  == ReadCsvBehaviours(rolodex_encodings)

RECURSIVE DecodeLoop(_, _, _, _)
\* for encoding in encodings: try: df = pd.read_csv(...); break / except <caught>: continue
\* [df, tried, error]: df is the codec that parsed (None if none did), tried the
\* candidates attempted in order, error what propagated out of the loop.
DecodeLoop(encodings, caught, outcome, i) ==
    IF i > Len(encodings) THEN [df |-> None, tried |-> <<>>, error |-> NoError]
    ELSE LET enc == encodings[i]
         IN  IF outcome[enc] = "ok"
             THEN [df |-> enc, tried |-> <<enc>>, error |-> NoError]
             ELSE IF outcome[enc] \in caught
             THEN LET rest == DecodeLoop(encodings, caught, outcome, i + 1)
                  IN  [rest EXCEPT !.tried = <<enc>> \o @]
             ELSE [df |-> None, tried |-> <<enc>>, error |-> Raised(outcome[enc], "read_csv")]

RaiseIfNoneForgotten(r, msg) == r

\* if df is None: raise ValueError(msg)
RaiseIfNone(r, msg) ==
    IF r.error = NoError /\ r.df = None THEN [r EXCEPT !.error = Raised("ValueError", msg)]
    ELSE r

DecodeContacts(outcome) ==
    RaiseIfNone(DecodeLoop(contacts_encodings, contacts_except, outcome, 1),
                "Could not decode contacts file.")

DecodeRolodex(outcome) ==
    RaiseIfNone(DecodeLoop(rolodex_encodings, rolodex_except, outcome, 1),
                "Could not decode or parse Rolodex file.")

(***************************************************************************)
(* Bounds of the model                                                     *)
(***************************************************************************)
MaxBody == 3        \* free-form cell text: characters after the optional prefix
MaxPart == 2        \* characters of the url and of the label of a formula cell

(***************************************************************************)
(* The parts of the state a specification does not explore stay here.      *)
(***************************************************************************)
EmptyState == [k \in {} |-> None]

ChatIdle  == /\ session_state = EmptyState /\ bedrock_agent_runtime = None
             /\ invocations = <<>> /\ chat_runs = 0
StoreIdle == /\ store = EmptyState /\ now = 0 /\ s3 = None
             /\ s3calls = <<>> /\ ui = <<>> /\ runs = 0
DecIdle   == upload = <<>> /\ decoded = <<>>
RolIdle   == df = <<>> /\ transformed = <<>>
MetIdle   == events = <<>> /\ metrics = <<>>
DelIdle   == widgets = <<>>
PubIdle   == publishing = <<>> /\ overwritten = {}
MoreIdle  == MetIdle /\ DelIdle /\ PubIdle

(***************************************************************************)
(* SpecDecode: the two fallback loops on every behaviour of read_csv.      *)
(***************************************************************************)
Uploads ==
    { [profile |-> "contacts", outcome |-> o] : o \in ContactsBehaviours }
    \cup
    { [profile |-> "rolodex", outcome |-> o] : o \in RolodexBehaviours }

InitDecode ==
    /\ upload \in { <<u>> : u \in Uploads }
    /\ decoded = <<>>
    /\ ChatIdle /\ StoreIdle /\ RolIdle /\ MoreIdle

DecodeContactsFile ==
    /\ decoded = <<>>
    /\ upload[1].profile = "contacts"
    /\ decoded' = <<DecodeContacts(upload[1].outcome)>>
    /\ UNCHANGED <<upload, chat_vars, store_vars, rol_vars,
                 met_vars, del_vars, pub_vars>>

DecodeRolodexFile ==
    /\ decoded = <<>>
    /\ upload[1].profile = "rolodex"
    /\ decoded' = <<DecodeRolodex(upload[1].outcome)>>
    /\ UNCHANGED <<upload, chat_vars, store_vars, rol_vars,
                 met_vars, del_vars, pub_vars>>

NextDecode == DecodeContactsFile \/ DecodeRolodexFile

SpecDecode == InitDecode /\ [][NextDecode]_vars

(***************************************************************************)
(* SpecRolodex: the Rolodex transform on one-row tables whose first cell   *)
(* ranges over plain text, quoted text, hyperlink formulas and NaN.        *)
(***************************************************************************)
CellAlphabet == {QUOTE, ";", ",", " ", "x"}
PartAlphabet == {";", ",", " ", "x"}

\* =HYPERLINK("<url>"<sep>"<label>")
Formula(prefix, url, sep, label) ==
    prefix \o <<"(", QUOTE>> \o url \o <<QUOTE, sep, QUOTE>> \o label \o <<QUOTE, ")">>

FreeCells ==
    { StrCell(p \o b) : p \in {<<>>, HYPERLINK \o <<"(">>, hyperlink \o <<"(">>},
                        b \in SeqsUpTo(CellAlphabet, MaxBody) }

FormulaCells ==
    { StrCell(Formula(p, u, sep, l)) :
        p \in {HYPERLINK, hyperlink}, sep \in {";", ","},
        u \in SeqsUpTo(PartAlphabet, MaxPart), l \in SeqsUpTo(PartAlphabet, MaxPart) }

Cells == FreeCells \cup FormulaCells \cup {NaN}

RolodexHeaders == { <<"Name">>, <<"Name", "Notes">>, <<"Name", DOC_LINK>> }

RolodexTables ==
    { DataFrame(h, << [i \in 1..Len(h) |-> IF i = 1 THEN c ELSE StrCell(<<"x">>)] >>, "utf-8") :
        h \in RolodexHeaders, c \in Cells }

InitRolodex ==
    /\ df \in { <<t>> : t \in RolodexTables }
    /\ transformed = <<>>
    /\ ChatIdle /\ StoreIdle /\ DecIdle /\ MoreIdle

TransformRolodex ==
    /\ transformed = <<>>
    /\ transformed' = <<RolodexTransform(df[1])>>
    /\ UNCHANGED <<df, chat_vars, store_vars, dec_vars,
                 met_vars, del_vars, pub_vars>>

NextRolodex == TransformRolodex

SpecRolodex == InitRolodex /\ [][NextRolodex]_vars

(***************************************************************************)
(* SpecChat: the Bedrock agent chat tab of one browser session.            *)
(***************************************************************************)
MaxChatRuns == 3    \* script runs of the session
MaxChunks   == 2    \* chunk events of one completion stream

Prompts       == {<<"p1">>, <<"p2">>}
ChunkPayloads == {<<"a">>}
SessionIds    == {"uuid-1", "uuid-2"}      \* what uuid.uuid4() may return
RequestErrors == {"ClientError"}           \* raised by invoke_agent itself
StreamErrors  == {"EventStreamError"}      \* raised while iterating the completion

Message(role, content) == [role |-> role, content |-> content]

\* What the agent service does with one request: invoke_agent raises
\* (chunks = <<>>), or the stream yields chunks and then ends (fail = None)
\* or raises after them.
AgentReplies ==
    { [chunks |-> <<>>, fail |-> e] : e \in RequestErrors }
    \cup
    { [chunks |-> c, fail |-> f] :
        c \in SeqsUpTo(ChunkPayloads, MaxChunks), f \in {None} \cup StreamErrors }

RECURSIVE Concat(_)
\* full_response += chunk["bytes"].decode(), over the chunks in arrival order
Concat(chunks) ==
    IF chunks = <<>> THEN <<>> ELSE Head(chunks) \o Concat(Tail(chunks))

\* f"An error occurred: {e}"
ErrorMessage(e) == <<"An error occurred: ", e>>

SessionIdRegenerated(ss, fresh) == fresh

\* line 400: if "session_id" not in st.session_state: ... = str(uuid.uuid4())
SessionId(ss, fresh) ==
    IF "session_id" \in DOMAIN ss THEN ss["session_id"] ELSE fresh

\* lines 399-400
InitSessionState(ss, fresh) ==
    [k \in {"messages", "session_id"} |->
        IF k = "session_id" THEN SessionId(ss, fresh)
        ELSE IF "messages" \in DOMAIN ss THEN ss["messages"] ELSE <<>>]

AppendMessage(ss, m) == [ss EXCEPT !["messages"] = Append(@, m)]

\* lines 412-425: the try block around invoke_agent and the chunk loop
AssistantReply(reply) ==
    IF reply.fail = None THEN Message("assistant", Concat(reply.chunks))
    ELSE Message("assistant", ErrorMessage(reply.fail))

InitChat ==
    /\ session_state = EmptyState
    /\ bedrock_agent_runtime \in {"client", None}
    /\ invocations = <<>>
    /\ chat_runs = 0
    /\ StoreIdle /\ DecIdle /\ RolIdle /\ MoreIdle

\* A script run with no chat input (first page load, or a widget of another tab).
ChatRerun ==
    /\ chat_runs < MaxChatRuns
    /\ \E fresh \in SessionIds :
           session_state' = InitSessionState(session_state, fresh)
    /\ chat_runs' = chat_runs + 1
    /\ UNCHANGED <<bedrock_agent_runtime, invocations, store_vars, dec_vars, rol_vars,
                 met_vars, del_vars, pub_vars>>

\* lines 399-425: a script run in which st.chat_input returned a prompt
ChatPrompt ==
    /\ chat_runs < MaxChatRuns
    /\ \E fresh \in SessionIds, prompt \in Prompts, reply \in AgentReplies :
        LET ss0 == InitSessionState(session_state, fresh)
            ss1 == AppendMessage(ss0, Message("user", prompt))
        IN  IF bedrock_agent_runtime = None
            THEN /\ session_state' = ss1
                 /\ UNCHANGED invocations
            ELSE /\ invocations' = Append(invocations,
                        [sessionId |-> ss1["session_id"], inputText |-> prompt,
                         failed |-> reply.fail # None])
                 /\ session_state' = AppendMessage(ss1, AssistantReply(reply))
    /\ chat_runs' = chat_runs + 1
    /\ UNCHANGED <<bedrock_agent_runtime, store_vars, dec_vars, rol_vars,
                 met_vars, del_vars, pub_vars>>

NextChat == ChatRerun \/ ChatPrompt

SpecChat == InitChat /\ [][NextChat]_vars

(***************************************************************************)
(* SpecStore: the bucket, the two upload handlers and the delete tab.      *)
(***************************************************************************)
MaxRuns  == 2       \* script runs with a button pressed
MaxClock == 1       \* seconds the wall clock advances

\* An S3 key: <dir><base>, and for a backup backups/<base>_<stamp>.csv
Key(dir, base, stamp) == [dir |-> dir, base |-> base, stamp |-> stamp]
NoKey == Key(None, None, <<>>)

CONTACTS_KEY == Key("", "partnercontacts.csv", <<>>)
ROL_KEY      == Key("", "rolodex.csv", <<>>)
OTHER_KEY    == Key("", "notes.txt", <<>>)     \* an object the app never writes

\* os.path.basename(s3_key)
basename(k) == k.base

\* datetime.now().strftime('%Y%m%d_%H%M%S'): the clock to the second
Timestamp(t) == <<t>>

BackupKeyUnstamped(s3_key, t) == Key("backups/", basename(s3_key), <<>>)

\* line 128
BackupKey(s3_key, t) == Key("backups/", basename(s3_key), Timestamp(t))

\* The bytes of an object are the CSV text of a table.
OldBytes == DataFrame(<<"old">>, <<>>, "utf-8")
NoBytes  == NoFrame

\* df.to_csv(index=False).encode('utf-8')
ToCsvBytes(t) == t

\* One request to S3 and how it ended.
Call(op, src, dst, body, keys, result) ==
    [op |-> op, src |-> src, dst |-> dst, body |-> body, keys |-> keys, result |-> result]

\* One st.info / st.warning / st.success / st.error box.
Box(level, text, about) == [level |-> level, text |-> text, about |-> about]

\* The store with key k holding bytes b.
StoreWith(S, k, b) == [x \in DOMAIN S \cup {k} |-> IF x = k THEN b ELSE S[x]]
StoreWithout(S, ks) == [x \in DOMAIN S \ ks |-> S[x]]

\* botocore raises ClientError for an error response of the service and
\* other exceptions (EndpointConnectionError, ...) when there is none.
ClientErrorCodes == {"404", "NoSuchKey", "AccessDenied"}
CopyOutcomes(S, k) ==
    IF k \in DOMAIN S THEN {"ok", "AccessDenied", "EndpointConnectionError"}
    ELSE {"404", "NoSuchKey", "EndpointConnectionError"}
PutOutcomes == {"ok", "ClientError"}

PutErrorSwallowed(put) == NoError

\* line 140: put_object is not inside a try, so what it raises propagates
PutError(put) == IF put = "ok" THEN NoError ELSE Raised(put, "put_object")

\* lines 126-140: backup_and_upload_bytes(data_bytes, s3_key, s3_client) on
\* store S at time t, with the outcomes of its two requests.
\* [store, calls, ui, error]: error is what propagates to the caller.
backup_and_upload_bytes(data_bytes, s3_key, S, t, copy, put) ==
    LET backup_key == BackupKey(s3_key, t)
        copy_call  == Call("copy_object", s3_key, backup_key, NoBytes, {}, copy)
        put_call   == Call("put_object", NoKey, s3_key, data_bytes, {}, put)
        backing_up == Box("info", "Backing up existing", s3_key)
        uploading  == Box("info", "Uploading transformed file to", s3_key)
        S1 == IF copy = "ok" THEN StoreWith(S, backup_key, S[s3_key]) ELSE S
        warned ==
            IF copy = "ok" THEN <<>>
            ELSE IF copy = "404"
            THEN <<Box("warning", "No existing file. A backup was not created.", s3_key)>>
            ELSE <<Box("warning", "Could not create backup", s3_key)>>
    IN  IF copy # "ok" /\ copy \notin ClientErrorCodes
        THEN \* not a ClientError: the except clause does not match
             [store |-> S, calls |-> <<copy_call>>, ui |-> <<backing_up>>,
              error |-> Raised(copy, "copy_object")]
        ELSE [store |-> IF put = "ok" THEN StoreWith(S1, s3_key, data_bytes) ELSE S1,
              calls |-> <<copy_call, put_call>>,
              ui    |-> <<backing_up>> \o warned \o <<uploading>>,
              error |-> PutError(put)]

\* An uploaded file: the table its text holds.
File(columns, rows) == [columns |-> columns, rows |-> rows]

ContactsFiles ==
    { File(<<"Account Name", "Email">>, <<>>) }

RolodexFiles ==
    { File(<<"Name">>, << <<StrCell(Formula(HYPERLINK, <<"x">>, ";", <<"x">>))>> >>),
      File(<<"Name", DOC_LINK>>, << <<StrCell(<<"x">>), StrCell(<<>>)>> >>) }

\* pd.read_csv(file, encoding=enc) when it parses
ReadCsv(file, enc) == DataFrame(file.columns, file.rows, enc)

\* What lines 207-215 / 231-239 can end with, over every behaviour of read_csv.
ContactsDecodings == { DecodeContacts(o) : o \in ContactsBehaviours }
RolodexDecodings  == { DecodeRolodex(o) : o \in RolodexBehaviours }

\* lines 206-221: the body of "Transform & Upload Contacts" once the decode
\* loop ended with d; [store, calls, ui]
ContactsUpload(file, d, S, t, copy, put) ==
        IF d.error # NoError
        THEN [store |-> S, calls |-> <<>>,
              ui |-> <<Box("error", "An error occurred with the Contacts file", NoKey)>>]
        ELSE LET csv_bytes == ToCsvBytes(ContactsTransform(ReadCsv(file, d.df)))
                 renamed   == Box("success", "Contacts columns renamed.", NoKey)
                 r == backup_and_upload_bytes(csv_bytes, CONTACTS_KEY, S, t, copy, put)
             IN  [store |-> r.store, calls |-> r.calls,
                  ui |-> <<renamed>> \o r.ui \o
                         (IF r.error = NoError
                          THEN <<Box("success", "Successfully uploaded transformed data to",
                                     CONTACTS_KEY)>>
                          ELSE <<Box("error", "An error occurred with the Contacts file",
                                     NoKey)>>)]

\* The same body with the publish ahead of the column transform.
RolodexUploadUntransformed(file, d, S, t, copy, put) ==
    LET shown == <<Box("error", "An error occurred with the Rolodex file", NoKey)>>
    IN  IF d.error # NoError
        THEN [store |-> S, calls |-> <<>>, ui |-> shown]
        ELSE LET x == RolodexTransform(ReadCsv(file, d.df))
                 r == backup_and_upload_bytes(ToCsvBytes(ReadCsv(file, d.df)), ROL_KEY, S, t,
                                              copy, put)
             IN  [store |-> r.store, calls |-> r.calls,
                  ui |-> IF x.error # NoError THEN shown ELSE r.ui]

\* lines 230-261: the body of "Transform & Upload Rolodex" once the decode
\* loop ended with d; [store, calls, ui]
RolodexUpload(file, d, S, t, copy, put) ==
    LET shown == <<Box("error", "An error occurred with the Rolodex file", NoKey)>>
    IN  IF d.error # NoError
        THEN [store |-> S, calls |-> <<>>, ui |-> shown]
        ELSE LET x == RolodexTransform(ReadCsv(file, d.df))
             IN  IF x.error # NoError
                 THEN [store |-> S, calls |-> <<>>, ui |-> shown]
                 ELSE LET r == backup_and_upload_bytes(ToCsvBytes(x.df), ROL_KEY, S, t,
                                                       copy, put)
                      IN  [store |-> r.store, calls |-> r.calls,
                           ui |-> <<Box("success", "Rolodex data transformed.", NoKey)>>
                                  \o r.ui \o
                                  (IF r.error = NoError
                                   THEN <<Box("success",
                                              "Successfully uploaded transformed data to",
                                              ROL_KEY)>>
                                   ELSE shown)]

\* The bucket when the session starts: empty, or holding both data files and
\* an unrelated object.
InitialKeySets == { {}, {CONTACTS_KEY, ROL_KEY, OTHER_KEY} }

InitStore ==
    /\ store \in UNION { [ks -> {OldBytes}] : ks \in InitialKeySets }
    /\ now = 0
    /\ s3 \in {"client", None}
    /\ s3calls = <<>>
    /\ ui = <<>>
    /\ runs = 0
    /\ ChatIdle /\ DecIdle /\ RolIdle /\ MoreIdle

\* The wall clock reaches the next second.
Tick ==
    /\ now < MaxClock
    /\ now' = now + 1
    /\ UNCHANGED <<store, s3, s3calls, ui, runs, chat_vars, dec_vars, rol_vars,
                 met_vars, del_vars, pub_vars>>

\* lines 203-221: "Transform & Upload Contacts" pressed
UploadContacts ==
    /\ runs < MaxRuns
    /\ runs' = runs + 1
    /\ \E file \in {<<>>} \cup { <<f>> : f \in ContactsFiles } :
        IF file = <<>> \/ s3 = None
        THEN /\ store' = store /\ s3calls' = <<>> /\ ui' = <<>>
        ELSE \E d \in ContactsDecodings :
                \* the requests are only issued when the decode succeeded
                \E copy \in IF d.error = NoError THEN CopyOutcomes(store, CONTACTS_KEY)
                             ELSE {"ok"},
                   put \in IF d.error = NoError THEN PutOutcomes ELSE {"ok"} :
                LET r == ContactsUpload(file[1], d, store, now, copy, put)
                IN  /\ store' = r.store /\ s3calls' = r.calls /\ ui' = r.ui
    /\ UNCHANGED <<now, s3, chat_vars, dec_vars, rol_vars,
                 met_vars, del_vars, pub_vars>>

\* lines 227-261: "Transform & Upload Rolodex" pressed
UploadRolodex ==
    /\ runs < MaxRuns
    /\ runs' = runs + 1
    /\ \E file \in {<<>>} \cup { <<f>> : f \in RolodexFiles } :
        IF file = <<>> \/ s3 = None
        THEN /\ store' = store /\ s3calls' = <<>> /\ ui' = <<>>
        ELSE \E d \in RolodexDecodings :
                \* the requests are only issued when the decode succeeded
                \E copy \in IF d.error = NoError THEN CopyOutcomes(store, ROL_KEY)
                             ELSE {"ok"},
                   put \in IF d.error = NoError THEN PutOutcomes ELSE {"ok"} :
                LET r == RolodexUpload(file[1], d, store, now, copy, put)
                IN  /\ store' = r.store /\ s3calls' = r.calls /\ ui' = r.ui
    /\ UNCHANGED <<now, s3, chat_vars, dec_vars, rol_vars,
                 met_vars, del_vars, pub_vars>>

\* lines 142-156: list_files_in_bucket; the keys, or a failure (returns None)
ListOutcomes == {"ok", "AccessDenied"}

\* line 348: what delete_objects does with the selected keys: it raises, or it
\* returns a response whose Errors name the keys it did not delete (here none
\* or one of them).
DeleteOutcomes(selected) ==
    { [raised |-> TRUE, errors |-> {}], [raised |-> FALSE, errors |-> {}] }
    \cup { [raised |-> FALSE, errors |-> {k}] : k \in selected }

\* The same body with the checkbox left out of the guard.
DeleteSelectedUnconfirmed(S, listing, files_to_delete, checked, pressed, outcome) ==
    LET list_call == Call("list_objects_v2", NoKey, NoKey, NoBytes, DOMAIN S, listing)
        del(result) ==
            Call("delete_objects", NoKey, NoKey, NoBytes, files_to_delete, result)
    IN  IF listing # "ok"
        THEN [store |-> S, calls |-> <<list_call>>,
              ui |-> <<Box("error", "Could not list files in bucket.", NoKey)>>]
        ELSE IF files_to_delete = {} \/ ~pressed
        THEN [store |-> S, calls |-> <<list_call>>, ui |-> <<>>]
        ELSE [store |-> StoreWithout(S, files_to_delete),
              calls |-> <<list_call, del("ok")>>,
              ui |-> <<Box("success", "Successfully deleted files.", NoKey)>>]

\* lines 337-351: the body of the delete tab; [store, calls, ui]
DeleteSelected(S, listing, files_to_delete, checked, pressed, outcome) ==
    LET list_call == Call("list_objects_v2", NoKey, NoKey, NoBytes, DOMAIN S, listing)
    IN  IF listing # "ok"
        THEN [store |-> S, calls |-> <<list_call>>,
              ui |-> <<Box("error", "Could not list files in bucket.", NoKey)>>]
        ELSE IF files_to_delete = {} \/ ~checked \/ ~pressed
        THEN [store |-> S, calls |-> <<list_call>>, ui |-> <<>>]
        ELSE LET del(result) ==
                     Call("delete_objects", NoKey, NoKey, NoBytes, files_to_delete, result)
             IN  IF outcome.raised
                 THEN [store |-> S, calls |-> <<list_call, del("raised")>>,
                       ui |-> <<Box("error", "Deletion failed", NoKey)>>]
                 ELSE [store |-> StoreWithout(S, files_to_delete \ outcome.errors),
                       calls |-> <<list_call, del("ok")>>,
                       ui |-> <<Box("success", "Successfully deleted files.", NoKey)>>]

\* lines 331-351: a script run of the delete tab
DeleteFiles ==
    /\ runs < MaxRuns
    /\ runs' = runs + 1
    /\ IF s3 = None
       THEN /\ store' = store /\ s3calls' = <<>>
            /\ ui' = <<Box("error", "Cannot list files: S3 client is not initialized.", NoKey)>>
       ELSE \E listing \in ListOutcomes, files_to_delete \in SUBSET DOMAIN store,
               checked \in BOOLEAN, pressed \in BOOLEAN :
             \* the request is only issued when the three conditions hold
             \E outcome \in IF listing = "ok" /\ files_to_delete # {} /\ checked /\ pressed
                             THEN DeleteOutcomes(files_to_delete)
                             ELSE {[raised |-> TRUE, errors |-> {}]} :
               LET r == DeleteSelected(store, listing, files_to_delete, checked, pressed,
                                       outcome)
               IN  /\ store' = r.store /\ s3calls' = r.calls /\ ui' = r.ui
    /\ UNCHANGED <<now, s3, chat_vars, dec_vars, rol_vars,
                 met_vars, del_vars, pub_vars>>

NextStore == Tick \/ UploadContacts \/ UploadRolodex \/ DeleteFiles

SpecStore == InitStore /\ [][NextStore]_vars

(***************************************************************************)
(* SpecMetrics: the rollup of the agent's event log over the last week.    *)
(* Quantities that the rollup divides are exact fractions num/den of       *)
(* naturals, so that a quotient is computed and not rounded; Undefined is  *)
(* what a division by zero yields (an arithmetic error, or NaN for the     *)
(* mean of nothing).                                                       *)
(***************************************************************************)
MaxEvents == 2      \* events in the log

WINDOW        == 7
MS_PER_SECOND == 1000
PER_MILLION   == 1000000
PERCENT       == 100

Zero      == [kind |-> "number", num |-> 0, den |-> 1]
Undefined == [kind |-> "undefined", num |-> 0, den |-> 0]

RECURSIVE Gcd(_, _)
Gcd(a, b) == IF b = 0 THEN a ELSE Gcd(b, a % b)

\* n / d in lowest terms
Quotient(n, d) ==
    IF d = 0 THEN Undefined
    ELSE IF n = 0 THEN Zero
    ELSE [kind |-> "number", num |-> n \div Gcd(n, d), den |-> d \div Gcd(n, d)]

Plus(a, b) ==
    IF a.kind # "number" \/ b.kind # "number" THEN Undefined
    ELSE Quotient(a.num * b.den + b.num * a.den, a.den * b.den)

Times(a, b) ==
    IF a.kind # "number" \/ b.kind # "number" THEN Undefined
    ELSE Quotient(a.num * b.num, a.den * b.den)

INPUT_RATE  == Quotient(25, PERCENT)
OUTPUT_RATE == Quotient(125, PERCENT)

\* The quotient with no guard in front of it.
QuotientUnguarded(n, d) == Quotient(n, d)

\* "n / d, or 0 if d is 0"
QuotientOrZero(n, d) == IF d = 0 THEN Zero ELSE Quotient(n, d)

AgentEvent(timestamp, tokens, latency_ms, feedback) ==
    [timestamp |-> timestamp, input_tokens |-> tokens, output_tokens |-> tokens,
     latency_ms |-> latency_ms, feedback |-> feedback]

RECURSIVE Total(_, _)
Total(log, field) ==
    IF log = <<>> THEN 0 ELSE Head(log)[field] + Total(Tail(log), field)

InWindow(e, window_end) == e.timestamp >= window_end - WINDOW

aggregate(log, window_end) ==
    LET recent   == SelectSeq(log, LAMBDA e : InWindow(e, window_end))
        rated    == SelectSeq(recent, LAMBDA e : e.feedback # None)
        positive == SelectSeq(rated, LAMBDA e : e.feedback = "positive")
        total_queries == Len(recent)
        total_cost ==
            Plus(Times(Quotient(Total(recent, "input_tokens"), PER_MILLION), INPUT_RATE),
                 Times(Quotient(Total(recent, "output_tokens"), PER_MILLION), OUTPUT_RATE))
    IN  [total_queries |-> total_queries,
         avg_latency_seconds |->
             QuotientOrZero(Total(recent, "latency_ms"), total_queries * MS_PER_SECOND),
         positive_feedback_rate |->
             QuotientOrZero(Len(positive) * PERCENT, Len(rated)),
         total_tokens |->
             Total(recent, "input_tokens") + Total(recent, "output_tokens"),
         total_cost |-> total_cost,
         avg_cost_per_query |->
             IF total_cost.kind # "number" THEN Undefined
             ELSE QuotientOrZero(total_cost.num, total_cost.den * total_queries)]

Timestamps  == {2, 5}               \* days
WindowEnds  == {9, 12}              \* the older events leave the later window
TokenCounts == {0, PER_MILLION}
Latencies   == {200, 800}
Feedbacks   == {"positive", "negative", None}

AgentEvents ==
    { AgentEvent(ts, n, ms, fb) :
        ts \in Timestamps, n \in TokenCounts, ms \in Latencies, fb \in Feedbacks }

InitMetrics ==
    /\ events \in { <<[log |-> log, window_end |-> w]>> :
                      log \in SeqsUpTo(AgentEvents, MaxEvents), w \in WindowEnds }
    /\ metrics = <<>>
    /\ ChatIdle /\ StoreIdle /\ DecIdle /\ RolIdle /\ DelIdle /\ PubIdle

Aggregate ==
    /\ metrics = <<>>
    /\ metrics' = <<aggregate(events[1].log, events[1].window_end)>>
    /\ UNCHANGED <<events, chat_vars, store_vars, dec_vars, rol_vars,
                   del_vars, pub_vars>>

NextMetrics == Aggregate

SpecMetrics == InitMetrics /\ [][NextMetrics]_vars

(***************************************************************************)
(* SpecDelete: script runs of the delete tab, with what the user did to    *)
(* its widgets in the run kept next to the requests the run issued.  A     *)
(* widget's value is what it returns if the script gets to it: the         *)
(* selection of the multiselect, whether the checkbox is ticked, whether   *)
(* this run was started by a click on the button.                          *)
(***************************************************************************)
MaxDeleteRuns == 2      \* script runs of the delete tab

Widgets(files_to_delete, checked, pressed) ==
    [files_to_delete |-> files_to_delete, checked |-> checked, pressed |-> pressed]

InitDelete ==
    /\ store \in UNION { [ks -> {OldBytes}] : ks \in InitialKeySets }
    /\ now = 0
    /\ s3 \in {"client", None}
    /\ s3calls = <<>>
    /\ ui = <<>>
    /\ runs = 0
    /\ widgets = <<>>
    /\ ChatIdle /\ DecIdle /\ RolIdle /\ MetIdle /\ PubIdle

\* lines 331-351: a script run of the delete tab
DeleteTab ==
    /\ runs < MaxDeleteRuns
    /\ runs' = runs + 1
    /\ IF s3 = None
       THEN /\ store' = store /\ s3calls' = <<>> /\ widgets' = <<>>
            /\ ui' = <<Box("error", "Cannot list files: S3 client is not initialized.", NoKey)>>
       ELSE \E listing \in ListOutcomes, files_to_delete \in SUBSET DOMAIN store,
               checked \in BOOLEAN, pressed \in BOOLEAN :
             \E outcome \in IF listing = "ok" /\ files_to_delete # {} /\ checked /\ pressed
                             THEN DeleteOutcomes(files_to_delete)
                             ELSE {[raised |-> TRUE, errors |-> {}]} :
               LET r == DeleteSelected(store, listing, files_to_delete, checked, pressed,
                                       outcome)
               IN  /\ store' = r.store /\ s3calls' = r.calls /\ ui' = r.ui
                   /\ widgets' = <<Widgets(files_to_delete, checked, pressed)>>
    /\ UNCHANGED <<now, s3, chat_vars, dec_vars, rol_vars, met_vars, pub_vars>>

NextDelete == DeleteTab

SpecDelete == InitDelete /\ [][NextDelete]_vars

(***************************************************************************)
(* SpecPublish: backup_and_upload_bytes run by several sessions on the     *)
(* same destination key.  The sessions share nothing but the bucket, so a  *)
(* publish is three steps that other sessions' steps may come between: the *)
(* backup key is stamped, copy_object is served, put_object is served.     *)
(* Both requests succeed and nothing is deleted.                           *)
(***************************************************************************)
MaxPublishes == 3       \* publishes started, over all sessions

Sessions == {"session 1", "session 2"}

\* The contacts files whose transformed bytes the sessions publish.
Revisions == { File(<<"Account Name", c>>, <<>>) : c \in {"Email", "Phone"} }

Publish(pc, backup_key, data_bytes) ==
    [pc |-> pc, backup_key |-> backup_key, data_bytes |-> data_bytes]
NotPublishing == Publish("idle", NoKey, NoBytes)

InitPublish ==
    /\ store = [k \in {CONTACTS_KEY} |-> OldBytes]
    /\ now = 0
    /\ s3 = "client"
    /\ s3calls = <<>>
    /\ ui = <<>>
    /\ runs = 0
    /\ publishing = [s \in Sessions |-> NotPublishing]
    /\ overwritten = {}
    /\ ChatIdle /\ DecIdle /\ RolIdle /\ MetIdle /\ DelIdle

\* lines 217-219 and 127-128: the handler calls backup_and_upload_bytes,
\* which stamps the backup key with the current second
StampBackupKey(s) ==
    /\ publishing[s].pc = "idle"
    /\ runs < MaxPublishes
    /\ runs' = runs + 1
    /\ \E file \in Revisions :
         publishing' = [publishing EXCEPT ![s] =
             Publish("stamped", BackupKey(CONTACTS_KEY, now),
                     ToCsvBytes(ContactsTransform(ReadCsv(file, "utf-8"))))]
    /\ UNCHANGED <<store, now, s3, s3calls, ui, overwritten,
                   chat_vars, dec_vars, rol_vars, met_vars, del_vars>>

\* line 131: copy_object is served
CopyObject(s) ==
    /\ publishing[s].pc = "stamped"
    /\ CONTACTS_KEY \in DOMAIN store
    /\ store' = StoreWith(store, publishing[s].backup_key, store[CONTACTS_KEY])
    /\ publishing' = [publishing EXCEPT ![s].pc = "copied"]
    /\ UNCHANGED <<now, s3, s3calls, ui, runs, overwritten,
                   chat_vars, dec_vars, rol_vars, met_vars, del_vars>>

\* line 140: put_object is served
PutObject(s) ==
    /\ publishing[s].pc = "copied"
    /\ overwritten' = overwritten \cup {store[CONTACTS_KEY]}
    /\ store' = StoreWith(store, CONTACTS_KEY, publishing[s].data_bytes)
    /\ publishing' = [publishing EXCEPT ![s] = NotPublishing]
    /\ UNCHANGED <<now, s3, s3calls, ui, runs,
                   chat_vars, dec_vars, rol_vars, met_vars, del_vars>>

NextPublish ==
    \/ Tick
    \/ \E s \in Sessions : StampBackupKey(s)
    \/ \E s \in Sessions : CopyObject(s)
    \/ \E s \in Sessions : PutObject(s)

SpecPublish == InitPublish /\ [][NextPublish]_vars

(***************************************************************************)
(* Claims about the decoder (SpecDecode)                                   *)
(***************************************************************************)
ProfileEncodings(u) == IF u.profile = "contacts" THEN contacts_encodings ELSE rolodex_encodings
ProfileExcept(u)    == IF u.profile = "contacts" THEN contacts_except ELSE rolodex_except
ProfileMessage(u)   == IF u.profile = "contacts" THEN "Could not decode contacts file."
                       ELSE "Could not decode or parse Rolodex file."
FallbackErrors == {"UnicodeDecodeError", "ParserError"}

\* C4: in both profiles the candidates are tried in list order, the result is
\* the parse of the first candidate that succeeds, a candidate that raises an
\* encoding error or a structural parse error is skipped and the next one is
\* tried, and any other error stops the loop and propagates.
C4_FallbackInBothProfiles ==
    decoded # <<>> =>
        LET r    == decoded[1]
            encs == ProfileEncodings(upload[1])
            o    == upload[1].outcome
            n    == Len(r.tried)
        IN  /\ n <= Len(encs)
            /\ r.tried = SubSeq(encs, 1, n)
            /\ \A i \in 1..n :
                /\ o[encs[i]] \in FallbackErrors /\ i < Len(encs) => n > i
                /\ o[encs[i]] = "ok" => i = n /\ r.df = encs[i] /\ r.error = NoError
                /\ o[encs[i]] \notin FallbackErrors \cup {"ok"}
                       => i = n /\ r.df = None /\ r.error.type = o[encs[i]]

\* The loop ran through every candidate of the profile and skipped each.
AllCandidatesSkipped ==
    /\ decoded # <<>>
    /\ decoded[1].tried = ProfileEncodings(upload[1])
    /\ \A c \in Range(ProfileEncodings(upload[1])) :
           upload[1].outcome[c] \in ProfileExcept(upload[1])

\* C5 as claimed: when every candidate of the profile fails, the operation
\* fails with an error whose value lists all the candidates attempted, and no
\* table is produced.
C5_ErrorListsCandidates ==
    AllCandidatesSkipped =>
        /\ decoded[1].df = None
        /\ decoded[1].error # NoError
        /\ \A c \in Range(decoded[1].tried) : c \in Range(decoded[1].error.args)

\* C5 as amended: when every candidate of the profile was tried and skipped,
\* the operation fails with a ValueError whose only argument is the profile's
\* fixed message (it names no candidate), and no table is produced.
C5_AllSkippedFixedMessage ==
    AllCandidatesSkipped =>
        /\ decoded[1].df = None
        /\ decoded[1].error.type = "ValueError"
        /\ decoded[1].error.args = <<ProfileMessage(upload[1])>>
        /\ \A c \in Range(decoded[1].tried) : c \notin Range(decoded[1].error.args)

C5_Witness ==
    /\ AllCandidatesSkipped
    /\ upload[1].profile = "rolodex"
    /\ upload[1].outcome["latin-1"] = "ParserError"
    /\ decoded[1].error.type = "ValueError"

(***************************************************************************)
(* Claims about the Rolodex hyperlink split (SpecRolodex)                  *)
(***************************************************************************)
FirstCell == df[1].rows[1][1]
Transformed == transformed # <<>> /\ transformed[1].error = NoError
OutFirst == transformed[1].df.rows[1][1]
OutLink  == transformed[1].df.rows[1][2]

PlainString(c) == c.isstr /\ ~StartsWith(Upper(c.v), HYPERLINK)

QuotePositions(t) == { i \in 1..Len(t) : t[i] = QUOTE }

\* The text between the first two double quotes of t, stripped; empty when t
\* has fewer than two double quotes.
FirstQuoted(t) ==
    IF Cardinality(QuotePositions(t)) < 2 THEN <<>>
    ELSE LET q1 == CHOOSE i \in QuotePositions(t) : \A j \in QuotePositions(t) : i <= j
             q2 == CHOOSE i \in QuotePositions(t) \ {q1} :
                       \A j \in QuotePositions(t) \ {q1} : i <= j
         IN  Strip(SubSeq(t, q1 + 1, q2 - 1))

\* C6 as claimed: on a plain string cell (no =HYPERLINK prefix, whatever else
\* it contains, double quotes included) the cell is left unchanged and the
\* inserted "Documentation Link" value is the empty string.
C6_PlainCellEmptyLink ==
    Transformed /\ PlainString(FirstCell) =>
        /\ transformed[1].df.columns[2] = DOC_LINK
        /\ OutFirst = FirstCell
        /\ OutLink = StrCell(<<>>)

\* C6 as amended: on a plain string cell the cell is left unchanged and the
\* inserted "Documentation Link" value is the stripped text between the first
\* two double quotes of the cell, which is empty when the cell holds fewer
\* than two double quotes.
C6_PlainCellQuotedLink ==
    Transformed /\ PlainString(FirstCell) =>
        /\ transformed[1].df.columns[2] = DOC_LINK
        /\ OutFirst = FirstCell
        /\ OutLink = StrCell(FirstQuoted(FirstCell.v))
        /\ Cardinality(QuotePositions(FirstCell.v)) < 2 => OutLink = StrCell(<<>>)

C6_Witness ==
    /\ Transformed
    /\ PlainString(FirstCell)
    /\ FirstCell.v = <<QUOTE, "x", QUOTE>>
    /\ OutLink = StrCell(<<"x">>)
    /\ OutFirst = FirstCell

\* C7: a first-column cell =HYPERLINK("<url>"<sep>"<label>") with <sep> ';' or
\* ',' becomes <label>, and the column "Documentation Link" inserted at
\* position 1 holds <url>, for every url and label, a url containing ';' or
\* ',' included.
C7_FormulaSplit ==
    Transformed =>
        \A p \in {HYPERLINK, hyperlink}, sep \in {";", ","},
           u \in SeqsUpTo(PartAlphabet, MaxPart), l \in SeqsUpTo(PartAlphabet, MaxPart) :
            FirstCell = StrCell(Formula(p, u, sep, l)) /\ Strip(u) = u /\ Strip(l) = l =>
                /\ transformed[1].df.columns[2] = DOC_LINK
                /\ OutFirst = StrCell(l)
                /\ OutLink = StrCell(u)

(***************************************************************************)
(* Claims about the agent relay (SpecChat)                                 *)
(***************************************************************************)
ChatMessages == IF "messages" \in DOMAIN session_state THEN session_state["messages"] ELSE <<>>
CountRole(role) == Cardinality({ i \in DOMAIN ChatMessages : ChatMessages[i].role = role })

\* C1: between prompts (every state of the model: a handler runs to its end
\* in one step) each user message is followed by exactly one assistant
\* message, so there are as many assistant messages as user messages,
\* whether the invocation succeeded or failed or the client was unavailable.
C1_OneReplyPerPrompt ==
    /\ CountRole("assistant") = CountRole("user")
    /\ \A i \in DOMAIN ChatMessages :
           ChatMessages[i].role = (IF i % 2 = 1 THEN "user" ELSE "assistant")

\* Once a script run has happened the session id exists, and every
\* invoke_agent request so far carried it.
C10_IdSetAndUsed ==
    /\ chat_runs > 0 => "session_id" \in DOMAIN session_state
    /\ \A i \in DOMAIN invocations :
           invocations[i].sessionId = session_state["session_id"]

\* A step never replaces a session id that exists.
C10_IdKept ==
    "session_id" \in DOMAIN session_state
        => session_state'["session_id"] = session_state["session_id"]

\* C10: the session id is generated once per browser session (by its first
\* script run), never changes afterwards, and every invoke_agent request of
\* the session, after successes and after failures, carries that same id.
C10_SessionIdFixed == [](C10_IdSetAndUsed) /\ [][C10_IdKept]_vars

C10_Witness ==
    /\ Len(invocations) = 3
    /\ invocations[1].failed /\ ~invocations[2].failed /\ invocations[3].failed
    /\ invocations[1].sessionId = invocations[3].sessionId

(***************************************************************************)
(* Claims about publish and delete (SpecStore)                             *)
(***************************************************************************)
DataKeys == {CONTACTS_KEY, ROL_KEY}

\* backups/<basename(k)>_<timestamp of second t>.csv
ExpectedBackupKey(k, t) == [dir |-> "backups/", base |-> k.base, stamp |-> <<t>>]

HasBox(boxes, level, text) ==
    \E i \in DOMAIN boxes : boxes[i].level = level /\ boxes[i].text = text

UPLOADED == "Successfully uploaded transformed data to"

\* C2: whatever the backup copy call does (success, source not found, any
\* other failure of any kind), the failure is at most a warning, the publish
\* is not aborted and the put of the destination key is attempted afterwards.
C2_PutFollowsEveryCopy ==
    \A i \in DOMAIN s3calls :
        s3calls[i].op = "copy_object" =>
            /\ \E j \in DOMAIN s3calls :
                   j > i /\ s3calls[j].op = "put_object" /\ s3calls[j].dst = s3calls[i].src
            /\ s3calls[i].result # "ok" => \E b \in Range(ui) : b.level = "warning"

\* The last script run published to k: its put_object returned.
Published(k) ==
    /\ runs' = runs + 1
    /\ \E i \in DOMAIN s3calls' :
           s3calls'[i].op = "put_object" /\ s3calls'[i].dst = k /\ s3calls'[i].result = "ok"

PutBody(calls) == (CHOOSE c \in Range(calls) : c.op = "put_object").body
CopyCall(calls) == CHOOSE c \in Range(calls) : c.op = "copy_object"

C3_NewBackupStep ==
    \A k \in DataKeys :
        k \in DOMAIN store /\ Published(k) =>
            LET bk == ExpectedBackupKey(k, now)
            IN  /\ bk \notin DOMAIN store
                /\ bk \in DOMAIN store'
                /\ store'[bk] = store[k]
                /\ store'[k] = PutBody(s3calls')

\* C3 as claimed: every completed publish on a key that holds an object
\* leaves a backup under backups/<basename>_<timestamp>.csv that did not
\* exist before, holding the prior bytes, and the destination holds the new
\* bytes.
C3_NewBackupEveryPublish == [][C3_NewBackupStep]_vars

C3_BackupStep ==
    \A k \in DataKeys :
        k \in DOMAIN store /\ Published(k) =>
            LET bk   == ExpectedBackupKey(k, now)
                copy == CopyCall(s3calls')
            IN  /\ copy.src = k /\ copy.dst = bk
                /\ store'[k] = PutBody(s3calls')
                /\ \A x \in DOMAIN store \ {k, bk} : x \in DOMAIN store' /\ store'[x] = store[x]
                /\ copy.result = "ok" =>
                       /\ DOMAIN store' = DOMAIN store \cup {bk}
                       /\ store'[bk] = store[k]
                /\ copy.result # "ok" =>
                       /\ DOMAIN store' = DOMAIN store
                       /\ bk \in DOMAIN store => store'[bk] = store[bk]

\* C3 as amended: after a completed publish on a key that holds an object the
\* destination holds the new bytes; when the copy call succeeded, the object
\* under backups/<basename>_<timestamp>.csv holds the prior bytes of the
\* destination (a key that is new unless a backup of the same basename was
\* written in the same second, which is then overwritten); when the copy call
\* failed with a client error no backup is written; no other object changes.
C3_BackupWhenCopySucceeds == [][C3_BackupStep]_vars

C3_Witness ==
    /\ Len(s3calls) = 2
    /\ s3calls[1].op = "copy_object" /\ s3calls[1].result = "ok"
    /\ s3calls[2].op = "put_object" /\ s3calls[2].result = "ok"
    /\ s3calls[1].dst \in DOMAIN store
    /\ store[s3calls[1].dst] \notin {OldBytes, store[s3calls[2].dst]}
    /\ s3calls[1].dst.stamp = <<1>>

\* C8: a bulk delete that is reported as successful removes exactly the
\* selected keys: the next listing is the previous key set minus the selected
\* keys, also when the response reports failures for individual keys.
C8_DeleteRemovesExactly ==
    \A i \in DOMAIN s3calls :
        s3calls[i].op = "delete_objects" /\ HasBox(ui, "success", "Successfully deleted files.")
            => DOMAIN store = s3calls[1].keys \ s3calls[i].keys

PutFailed(calls) ==
    \E c \in Range(calls) : c.op = "put_object" /\ c.result # "ok"

C9_FailedPutStep ==
    runs' = runs + 1 /\ PutFailed(s3calls') =>
        LET copy == CopyCall(s3calls')
        IN  /\ ui'[Len(ui')].level = "error"
            /\ ~HasBox(ui', "success", UPLOADED)
            /\ copy.result = "ok" =>
                   /\ copy.dst \in DOMAIN store'
                   /\ store' = StoreWith(store, copy.dst, store[copy.src])
            /\ copy.result # "ok" => store' = store

\* C9: when the put of the destination key fails, the handler shows an error
\* for that operation and never the upload success box; nothing is rolled
\* back (a backup written by the copy stays, the destination keeps its
\* bytes), and the session takes the next action.
C9_PutFailureReported ==
    /\ [][C9_FailedPutStep]_vars
    /\ [](PutFailed(s3calls) /\ runs < MaxRuns => ENABLED (UploadContacts \/ UploadRolodex))

C9_Witness ==
    /\ PutFailed(s3calls)
    /\ CopyCall(s3calls).result = "ok"
    /\ CopyCall(s3calls).dst \in DOMAIN store
    /\ HasBox(ui, "error", "An error occurred with the Contacts file")
    /\ runs < MaxRuns

(***************************************************************************)
(* Claims about the metrics rollup (SpecMetrics)                           *)
(***************************************************************************)
Recent == SelectSeq(events[1].log, LAMBDA e : InWindow(e, events[1].window_end))
Rated  == SelectSeq(Recent, LAMBDA e : e.feedback # None)
Quotients(m) ==
    {m.avg_latency_seconds, m.positive_feedback_rate, m.total_cost, m.avg_cost_per_query}

\* C11: when no event of the log falls in the window the rollup reports
\* zero queries, zero average latency, zero positive-feedback rate and zero
\* average cost per query; when no event in the window carries a feedback
\* value the positive-feedback rate is zero; and no reported quantity is
\* ever the outcome of a division by zero.
C11_ZeroWhenNothingToDivide ==
    metrics # <<>> =>
        /\ Recent = <<>> =>
              /\ metrics[1].total_queries = 0
              /\ metrics[1].avg_latency_seconds = Zero
              /\ metrics[1].positive_feedback_rate = Zero
              /\ metrics[1].avg_cost_per_query = Zero
        /\ Rated = <<>> => metrics[1].positive_feedback_rate = Zero
        /\ \A q \in Quotients(metrics[1]) : q.kind = "number"

\* A log whose events are all older than the window has been rolled up.
C11_Witness ==
    /\ metrics # <<>>
    /\ events[1].log # <<>>
    /\ Recent = <<>>

(***************************************************************************)
(* Claims about the delete tab (SpecDelete)                                *)
(***************************************************************************)
DeleteCalls == SelectSeq(s3calls, LAMBDA c : c.op = "delete_objects")
Listed      == \E i \in DOMAIN s3calls :
                   s3calls[i].op = "list_objects_v2" /\ s3calls[i].result = "ok"
Confirmed   == /\ widgets # <<>>
               /\ widgets[1].files_to_delete # {}
               /\ widgets[1].checked
               /\ widgets[1].pressed

\* C12: a script run sends a delete request only if, in that run, the
\* selection is not empty, the confirmation checkbox is ticked and the
\* delete button was pressed; a run where the listing succeeded and the
\* three hold sends exactly one delete request, and that request carries
\* exactly the selected keys; every other run sends none.
C12_DeleteOnlyWhenConfirmed ==
    /\ DeleteCalls # <<>> => Confirmed /\ Listed
    /\ Confirmed /\ Listed =>
          /\ Len(DeleteCalls) = 1
          /\ DeleteCalls[1].keys = widgets[1].files_to_delete
    /\ ~(Confirmed /\ Listed) => DeleteCalls = <<>>

\* A confirmed selection of two keys has been sent for deletion.
C12_Witness ==
    /\ Confirmed
    /\ Len(DeleteCalls) = 1
    /\ Cardinality(DeleteCalls[1].keys) = 2

(***************************************************************************)
(* Claims about interleaved publishes (SpecPublish)                        *)
(***************************************************************************)
BackedUp(bytes) == \E k \in DOMAIN store : k.dir = "backups/" /\ store[k] = bytes
NoPublishRunning == \A s \in Sessions : publishing[s].pc = "idle"

\* C13: once the publishes that were started have completed, every content
\* version that a put_object call has replaced on the destination key is
\* held by some backup object, whatever the order of the sessions' copy and
\* put calls and whatever the second their backup keys were stamped in.
C13_NoOverwrittenVersionLost ==
    NoPublishRunning => \A bytes \in overwritten : BackedUp(bytes)

(***************************************************************************)
(* Claims about uploads that fail before the publish (SpecStore)           *)
(***************************************************************************)
\* A table read_csv cannot hand back but the transform would refuse as well.
NoColumnsFile == File(<<>>, <<>>)

ContactsFailsEarly(d) == d.error # NoError
RolodexFailsEarly(file, d) ==
    \/ d.error # NoError
    \/ RolodexTransform(ReadCsv(file, d.df)).error # NoError

\* The handler ended without a request, left the bucket as S and showed its error.
NothingIssued(r, S, text) ==
    /\ r.store = S
    /\ r.calls = <<>>
    /\ HasBox(r.ui, "error", text)

\* C14: in every state the bucket can be in, an upload whose decode loop
\* ends with an error (every candidate failed, or an error outside the
\* fallback set propagated) or whose column transform raises (the table
\* already has a "Documentation Link" column, or has no column) issues
\* neither copy_object nor put_object, leaves every object of the bucket as
\* it was, creates no backup object, and shows the handler's error box.
C14_FailedUploadLeavesStore ==
    s3 # None =>
        /\ \A file \in ContactsFiles, d \in ContactsDecodings :
             ContactsFailsEarly(d) =>
                \A copy \in CopyOutcomes(store, CONTACTS_KEY), put \in PutOutcomes :
                   NothingIssued(ContactsUpload(file, d, store, now, copy, put), store,
                                 "An error occurred with the Contacts file")
        /\ \A file \in RolodexFiles \cup {NoColumnsFile}, d \in RolodexDecodings :
             RolodexFailsEarly(file, d) =>
                \A copy \in CopyOutcomes(store, ROL_KEY), put \in PutOutcomes :
                   NothingIssued(RolodexUpload(file, d, store, now, copy, put), store,
                                 "An error occurred with the Rolodex file")

\* A Rolodex upload has failed before its publish on a bucket that holds
\* the destination: no request, the error box, the old bytes, no backup.
C14_Witness ==
    /\ runs > 0
    /\ s3calls = <<>>
    /\ HasBox(ui, "error", "An error occurred with the Rolodex file")
    /\ ROL_KEY \in DOMAIN store
    /\ store[ROL_KEY] = OldBytes
    /\ \A k \in DOMAIN store : k.dir # "backups/"

====
